---- MODULE Spec2Model ----
(***************************************************************************)
(* Model of the HackRx document-intelligence pipeline.                     *)
(*                                                                         *)
(*   SpecQuery     : POST /hackrx/run (main.py) and                        *)
(*                   RetrievalService.answer_query (retrieval_service.py)  *)
(*   SpecExtract   : DocumentProcessor._extract_graph_entities, batch loop *)
(*   SpecNodeDedup : its node-dedup step over any list of node items       *)
(*   SpecRelFilter : its relationship validation over any list of items    *)
(*   SpecTask      : process_document_task (tasks.py) for one document:    *)
(*                   DocumentProcessor.process, _create_chunks,            *)
(*                   _ingest_into_neo4j (processing_service.py)            *)
(*   SpecIngest    : the tasks of two documents interleaved on one store   *)
(*                                                                         *)
(* External services (LLMs, retriever, parser, store) are modelled by the  *)
(* outcomes they can hand back to the code: a value from a small set, or   *)
(* an exception.                                                           *)
(***************************************************************************)
EXTENDS Integers, Sequences, FiniteSets, TLC

VARIABLES
    \* ---- query path ----
    request,      \* the HTTP request: authorization header and questions
    qpc,          \* position of the request handler
    qidx,         \* index of the question run_pipeline is answering
    answers,      \* run_pipeline's local list `answers`
    route,        \* answer_query's `route.strategy` ("none" before the router call)
    branch,       \* branch of the if/elif/else answer_query took
    context,      \* answer_query's `context`
    sources,      \* answer_query's `sources`
    calls,        \* log of the external calls made for this request
    answer_data,  \* what each completed answer_query returned
    response,     \* the HTTP response
    \* ---- _extract_graph_entities ----
    chunks,             \* the argument `chunks`
    epc,                \* position inside _extract_graph_entities
    bi,                 \* the loop variable `i` of range(0, len(chunks), 5)
    all_nodes,          \* the local list `all_nodes`
    all_relationships,  \* the local list `all_relationships`
    batch_log,          \* per extractor.invoke call: the batch and its outcome
    unique_nodes_set,   \* the local set `unique_nodes_set`
    rerun_set,          \* the node-dedup step run on its own output
    extracted,          \* what _extract_graph_entities returned or raised
    \* ---- ingestion jobs and the shared store ----
    jobs,         \* per uploaded document: the state of its process_document_task
    store         \* the Neo4j store: ParentChunk and ChildChunk nodes, CHILD_OF
                  \* edges and the merged graph documents

qvars == <<request, qpc, qidx, answers, route, branch, context, sources,
           calls, answer_data, response>>

evars == <<chunks, epc, bi, all_nodes, all_relationships, batch_log,
           unique_nodes_set, rerun_set, extracted>>

ivars == <<jobs, store>>

vars == <<qvars, evars, ivars>>

(***************************************************************************)
(* Bounds                                                                  *)
(***************************************************************************)
MaxQuestions == 2
MaxChunks == 11
MaxNodes == 3
MaxRels == 2
MaxParents == 2
MaxKids == 2

(***************************************************************************)
(* Generic helpers                                                         *)
(***************************************************************************)
SeqsUpTo(S, n) == UNION {[1..k -> S] : k \in 0..n}

RECURSIVE Join(_)
\* "\n\n".join(parts): the parts in order with the separator between them
Join(parts) ==
    IF Len(parts) = 0 THEN <<>>
    ELSE IF Len(parts) = 1 THEN <<parts[1]>>
    ELSE <<parts[1], "\n\n">> \o Join(Tail(parts))

(***************************************************************************)
(* Query path: constants of the code                                       *)
(***************************************************************************)
API_KEY == "Rachu"

GRAPH_QA_CONTEXT ==
    <<"Graph QA is not yet implemented. Please ask a broader question.">>
UNDETERMINED_CONTEXT ==
    <<"Could not determine a valid retrieval strategy.">>

\* what the router LLM can hand back: a QueryRouter object with some
\* strategy string, or output that with_structured_output cannot turn
\* into a QueryRouter (the chain raises)
KnownStrategies == {"vector_search", "graph_qa", "hybrid_search"}
RouterOutcomes == KnownStrategies \cup {"keyword_search", "MALFORMED"}

Questions == {"q1", "q2"}
Documents == {[page_content |-> "t1", metadata |-> "m1"],
              [page_content |-> "t2", metadata |-> "m2"]}
LLMAnswers == {"a1", "a2"}

\* what the retriever can hand back: distinct documents of the index, in
\* any order
Retrievals ==
    {r \in SeqsUpTo(Documents, Cardinality(Documents)) :
        \A i, j \in 1..Len(r) : i # j => r[i] # r[j]}

\* Authorization headers: absent, or "<scheme> <credentials>"
Headers == {[present |-> FALSE, scheme |-> "", credentials |-> ""]} \cup
           [present : {TRUE},
            scheme : {"Bearer", "bearer", "Basic"},
            credentials : {"Rachu", "rachu", "Rachu "}]

Requests == [authorization : Headers,
             questions : SeqsUpTo(Questions, MaxQuestions)]

NoResponse == [status |-> 0]

NoRequest == [authorization |-> [present |-> FALSE, scheme |-> "",
                                  credentials |-> ""],
              questions |-> <<>>]

\* the request handler at position pc for request req, nothing done yet
\* (pc = "idle": no request)
QueryStart(req, pc) ==
    /\ request = req
    /\ qpc = pc
    /\ qidx = 1
    /\ answers = <<>>
    /\ route = "none"
    /\ branch = "none"
    /\ context = <<>>
    /\ sources = <<>>
    /\ calls = <<>>
    /\ answer_data = <<>>
    /\ response = NoResponse

Lower(s) == IF s = "Bearer" THEN "bearer" ELSE s

\* security = HTTPBearer(): fastapi rejects a request without a bearer
\* authorization header before the dependency body runs
HTTPBearer ==
    /\ UNCHANGED <<evars, ivars>>
    /\ qpc = "security"
    /\ LET h == request.authorization IN
       IF ~h.present \/ Lower(h.scheme) # "bearer"
       THEN /\ response' = [status |-> 403, detail |-> "Not authenticated"]
            /\ qpc' = "done"
       ELSE /\ qpc' = "get_api_key"
            /\ UNCHANGED response
    /\ UNCHANGED <<request, qidx, answers, route, branch, context, sources,
                   calls, answer_data>>

get_api_key ==
    /\ UNCHANGED <<evars, ivars>>
    /\ qpc = "get_api_key"
    /\ LET h == request.authorization IN
       IF h.scheme # "Bearer" \/ h.credentials # API_KEY
       THEN /\ response' = [status |-> 401,
                            detail |-> "Invalid or missing API key"]
            /\ qpc' = "done"
       ELSE /\ qpc' = "run_pipeline"
            /\ UNCHANGED response
    /\ UNCHANGED <<request, qidx, answers, route, branch, context, sources,
                   calls, answer_data>>

\* HackRxResponse(answers=answers): the response model has the single
\* field `answers`
HackRxResponse(as) == [status |-> 200, answers |-> as]

\* except Exception as e: raise HTTPException(status_code=500, ...)
HTTPException500(e) ==
    [status |-> 500, detail |-> <<"An unexpected error occurred: ", e>>]

\* for question in request.questions: ... ; return HackRxResponse(...)
run_pipeline ==
    /\ UNCHANGED <<evars, ivars>>
    /\ qpc = "run_pipeline"
    /\ IF qidx <= Len(request.questions)
       THEN /\ qpc' = "router"
            /\ UNCHANGED response
       ELSE /\ response' = HackRxResponse(answers)
            /\ qpc' = "done"
    /\ route' = "none"
    /\ branch' = "none"
    /\ context' = <<>>
    /\ sources' = <<>>
    /\ UNCHANGED <<request, qidx, answers, calls, answer_data>>

\* one external call: the service, the question it was made for, whether
\* it returned, the context passed (synthesizer only) and what it returned
Call(svc, ctx, ok, out) ==
    [svc |-> svc, qidx |-> qidx, query |-> request.questions[qidx],
     context |-> ctx, ok |-> ok, out |-> out]

\* an exception leaves answer_query (which has no handler) and reaches
\* run_pipeline's except clause
Raise(e) ==
    /\ branch' = "raised"
    /\ response' = HTTPException500(e)
    /\ qpc' = "done"

\* route = self.router_chain.invoke({"question": query})
router_outcome(o) ==
    /\ calls' = Append(calls, Call("router", <<>>, o # "MALFORMED", <<o>>))
    /\ IF o = "MALFORMED"
       THEN /\ Raise("router")
            /\ UNCHANGED route
       ELSE /\ route' = o
            /\ qpc' = "branch"
            /\ UNCHANGED <<branch, response>>

router_invoke ==
    /\ UNCHANGED <<evars, ivars>>
    /\ qpc = "router"
    /\ \E o \in RouterOutcomes : router_outcome(o)
    /\ UNCHANGED <<request, qidx, answers, context, sources, answer_data>>

\* if route.strategy in ["vector_search", "hybrid_search"]:
vector_branch_guard_any_known(r) == r \in KnownStrategies
vector_branch_guard_vector_only(r) == r = "vector_search"
vector_branch_guard(r) == r \in {"vector_search", "hybrid_search"}

vector_branch ==
    /\ UNCHANGED <<evars, ivars>>
    /\ qpc = "branch"
    /\ vector_branch_guard(route)
    /\ \/ \E results \in Retrievals :
            /\ calls' = Append(calls, Call("retriever", <<>>, TRUE,
                                                results))
            /\ context' = Join([i \in 1..Len(results) |->
                                  results[i].page_content])
            /\ sources' = [i \in 1..Len(results) |-> results[i].metadata]
            /\ branch' = "vector"
            /\ qpc' = "synthesize"
            /\ UNCHANGED response
       \/ /\ calls' = Append(calls, Call("retriever", <<>>, FALSE, <<>>))
          /\ Raise("retriever")
          /\ UNCHANGED <<context, sources>>
    /\ UNCHANGED <<request, qidx, answers, route, answer_data>>

\* elif route.strategy == "graph_qa":
graph_qa_result == [context |-> GRAPH_QA_CONTEXT, sources |-> <<>>]

graph_qa_branch ==
    /\ UNCHANGED <<evars, ivars>>
    /\ qpc = "branch"
    /\ ~vector_branch_guard(route)
    /\ route = "graph_qa"
    /\ context' = graph_qa_result.context
    /\ sources' = graph_qa_result.sources
    /\ branch' = "graph_qa"
    /\ qpc' = "synthesize"
    /\ UNCHANGED <<request, qidx, answers, route, calls, answer_data, response>>

\* else:
undetermined_branch ==
    /\ UNCHANGED <<evars, ivars>>
    /\ qpc = "branch"
    /\ ~vector_branch_guard(route)
    /\ route # "graph_qa"
    /\ context' = UNDETERMINED_CONTEXT
    /\ sources' = <<>>
    /\ branch' = "undetermined"
    /\ qpc' = "synthesize"
    /\ UNCHANGED <<request, qidx, answers, route, calls, answer_data, response>>

\* answers.append(answer_data["answer"])
append_answer_in_front(as, data) == <<data.answer>> \o as
append_answer(as, data) == Append(as, data.answer)

\* final_answer = self._synthesize_answer(query, context)
\* return {"answer": final_answer, "sources": sources}
synthesize_answer ==
    /\ UNCHANGED <<evars, ivars>>
    /\ qpc = "synthesize"
    /\ \/ \E a \in LLMAnswers :
            LET data == [answer |-> a, sources |-> sources] IN
            /\ calls' = Append(calls, Call("synthesizer", context, TRUE,
                                                <<a>>))
            /\ answer_data' = Append(answer_data, data)
            /\ answers' = append_answer(answers, data)
            /\ qidx' = qidx + 1
            /\ qpc' = "run_pipeline"
            /\ UNCHANGED <<branch, response>>
       \/ /\ calls' = Append(calls, Call("synthesizer", context, FALSE,
                                              <<>>))
          /\ Raise("synthesizer")
          /\ UNCHANGED <<answer_data, answers, qidx>>
    /\ UNCHANGED <<request, route, context, sources>>

QueryNext ==
    \/ HTTPBearer
    \/ get_api_key
    \/ run_pipeline
    \/ router_invoke
    \/ vector_branch
    \/ graph_qa_branch
    \/ undetermined_branch
    \/ synthesize_answer


(***************************************************************************)
(* DocumentProcessor._extract_graph_entities                               *)
(*                                                                         *)
(* JsonOutputParser hands back plain JSON: the pydantic models Node,       *)
(* Relationship and Graph only shape the format instructions, so an item   *)
(* of 'nodes' or 'relationships' may be any JSON value.  A JSON object is  *)
(* a record of kind "dict"; dict.get of an absent (or null) key is MISSING. *)
(***************************************************************************)
BATCH_SIZE == 5

MISSING == "<None>"

\* Python truthiness of a JSON string-or-null value
Truthy(v) == v \notin {MISSING, ""}

\* `v or default`
OrDefault(v, default) == IF Truthy(v) THEN v ELSE default

\* isinstance(x, dict)
IsDict(x) == x.kind = "dict"

Min(a, b) == IF a <= b THEN a ELSE b

NotADict == [kind |-> "other", id |-> MISSING, type |-> MISSING]
Absent == [kind |-> "none", id |-> MISSING, type |-> MISSING]
Obj(id, type) == [kind |-> "dict", id |-> id, type |-> type]

NodeItems == {NotADict} \cup
             {Obj(id, type) : id \in {MISSING, "", "A", "B"},
                              type \in {MISSING, "", "Person", "Org"}}

\* between them the source and target values cover every case the code
\* tells apart: absent, not an object, id missing or empty, type missing
\* or empty, and complete
SourceItems == {Absent, NotADict, Obj("", "Person"), Obj("A", MISSING),
                Obj("A", "Person")}
TargetItems == {NotADict, Obj(MISSING, "Org"), Obj("B", ""), Obj("B", "Org")}
RelTypes == {MISSING, "", "WORKS_AT"}

RelObj(source, target, type) ==
    [kind |-> "dict", source |-> source, target |-> target, type |-> type]
NotARel == [kind |-> "other", source |-> Absent, target |-> Absent,
            type |-> MISSING]

RelItems == {NotARel} \cup
            {RelObj(src, tgt, t) : src \in SourceItems, tgt \in TargetItems,
                                   t \in RelTypes}

Chunk(k) == [page_content |-> k]

\* langchain's Node and Relationship
LangchainNode(id, type) == [id |-> id, type |-> type]
LangchainRelationship(source, target, type) ==
    [source |-> source, target |-> target, type |-> type]
GraphDocument(nodes, relationships, source) ==
    [nodes |-> nodes, relationships |-> relationships, source |-> source]

\* graph_data.get(key, [])
GetList(graph_data, key) ==
    IF key \in DOMAIN graph_data THEN graph_data[key] ELSE <<>>

\* the responses the extraction LLM gives per batch in SpecExtract
GraphDataFull ==
    [nodes |-> <<Obj("A", "Person")>>,
     relationships |-> <<RelObj(Obj("A", "Person"), Obj("B", "Org"),
                                "WORKS_AT")>>]

GraphDataSet ==
    {GraphDataFull,
     [nodes |-> <<Obj("B", MISSING), Obj("A", "Person")>>],
     [relationships |-> <<RelObj(Obj("A", MISSING), NotADict, "WORKS_AT"),
                          RelObj(Obj("A", MISSING), Obj("B", "Org"),
                                 "WORKS_AT")>>]}

NoResult == [raised |-> FALSE, docs |-> <<>>]
Returned(docs) == [raised |-> FALSE, docs |-> docs]
Raised == [raised |-> TRUE, docs |-> <<>>]

\* the type given to a node whose 'type' is missing or empty
UNKNOWN_TYPE == "Unknown"
NO_DEFAULT_TYPE == MISSING

\* node_type = node.get('type') or 'Unknown'
node_type_missing(type) == OrDefault(type, NO_DEFAULT_TYPE)
node_type(type) == OrDefault(type, UNKNOWN_TYPE)

RECURSIVE unique_nodes(_, _)
\* for node in all_nodes: if isinstance(node, dict) and node.get('id'): add
unique_nodes(nodes, acc) ==
    IF nodes = <<>> THEN acc
    ELSE LET node == Head(nodes) IN
         unique_nodes(Tail(nodes),
                      IF IsDict(node) /\ Truthy(node.id)
                      THEN acc \cup {<<node.id, node_type(node.type)>>}
                      ELSE acc)

\* nodes = [LangchainNode(id=id, type=type) for id, type in unique_nodes_set
\*          if id is not None]; a Python set has no fixed order, so the
\* list is kept as the set of its elements
node_list(unique) ==
    {LangchainNode(pair[1], pair[2]) : pair \in {q \in unique : q[1] # MISSING}}

\* if not source_id or not target_id or not rel_type: continue
rel_incomplete_ignoring_type(source_id, target_id, rel_type) ==
    ~Truthy(source_id) \/ ~Truthy(target_id)
rel_incomplete(source_id, target_id, rel_type) ==
    ~Truthy(source_id) \/ ~Truthy(target_id) \/ ~Truthy(rel_type)

RECURSIVE build_relationships(_)
\* for rel in all_relationships: ... relationships.append(...)
build_relationships(rels) ==
    IF rels = <<>> THEN <<>>
    ELSE LET rel == Head(rels)
             rest == build_relationships(Tail(rels))
         IN  IF ~IsDict(rel) THEN rest
             ELSE IF ~IsDict(rel.source) \/ ~IsDict(rel.target) THEN rest
             ELSE IF rel_incomplete(rel.source.id, rel.target.id, rel.type)
                  THEN rest
             ELSE <<LangchainRelationship(
                        LangchainNode(rel.source.id, node_type(rel.source.type)),
                        LangchainNode(rel.target.id, node_type(rel.target.type)),
                        rel.type)>> \o rest

\* _extract_graph_entities entered with `chs` (pc = "idle": not called)
ExtractStart(chs, pc) ==
    /\ chunks = chs
    /\ epc = pc
    /\ bi = 0
    /\ all_nodes = <<>>
    /\ all_relationships = <<>>
    /\ batch_log = <<>>
    /\ unique_nodes_set = {}
    /\ rerun_set = {}
    /\ extracted = NoResult

\* one call of extractor.invoke as the log keeps it
Invocation(batch_chunks, ok, nodes, rels) ==
    [i |-> bi, batch_chunks |-> batch_chunks, ok |-> ok,
     nodes |-> nodes, relationships |-> rels]

\* except Exception as e: print(...); continue
except_retry ==
    /\ bi' = bi
    /\ UNCHANGED <<all_nodes, all_relationships>>
except_break ==
    /\ bi' = Len(chunks)
    /\ UNCHANGED <<all_nodes, all_relationships>>
except_continue ==
    /\ bi' = bi + BATCH_SIZE
    /\ UNCHANGED <<all_nodes, all_relationships>>

\* one iteration of `for i in range(0, len(chunks), 5)`
extract_batch ==
    /\ UNCHANGED <<qvars, ivars>>
    /\ epc = "batches"
    /\ bi < Len(chunks)
    /\ LET batch_chunks == SubSeq(chunks, bi + 1,
                                  Min(bi + BATCH_SIZE, Len(chunks)))
       IN  \/ \E graph_data \in GraphDataSet :
                /\ all_nodes' = all_nodes \o GetList(graph_data, "nodes")
                /\ all_relationships' =
                       all_relationships \o GetList(graph_data, "relationships")
                /\ batch_log' = Append(batch_log,
                       Invocation(batch_chunks, TRUE,
                                  GetList(graph_data, "nodes"),
                                  GetList(graph_data, "relationships")))
                /\ bi' = bi + BATCH_SIZE
           \/ /\ batch_log' = Append(batch_log,
                       Invocation(batch_chunks, FALSE, <<>>, <<>>))
              /\ except_continue
    /\ UNCHANGED <<chunks, epc, unique_nodes_set, rerun_set, extracted>>

\* the code after the loop: node dedup, relationship validation and
\* return [GraphDocument(..., source=chunks[0])]
postprocess ==
    /\ UNCHANGED <<qvars, ivars>>
    /\ epc = "batches"
    /\ bi >= Len(chunks)
    /\ unique_nodes_set' = unique_nodes(all_nodes, {})
    /\ extracted' =
          IF Len(chunks) = 0
          THEN Raised    \* chunks[0]: IndexError
          ELSE Returned(<<GraphDocument(node_list(unique_nodes_set'),
                                        build_relationships(all_relationships),
                                        chunks[1])>>)
    /\ epc' = "done"
    /\ UNCHANGED <<chunks, bi, all_nodes, all_relationships, batch_log,
                   rerun_set>>

RECURSIVE SetToSeq(_)
SetToSeq(S) ==
    IF S = {} THEN <<>>
    ELSE LET x == CHOOSE y \in S : TRUE IN <<x>> \o SetToSeq(S \ {x})

\* the (id, type) pairs written back as node objects {id, type}
AsNodeItems(unique) ==
    LET pairs == SetToSeq(unique) IN
    [k \in 1..Len(pairs) |-> Obj(pairs[k][1], pairs[k][2])]

\* the node-dedup step applied to its own output
dedup_again ==
    /\ UNCHANGED <<qvars, ivars>>
    /\ epc = "done"
    /\ rerun_set' = unique_nodes(AsNodeItems(unique_nodes_set), {})
    /\ epc' = "rerun"
    /\ UNCHANGED <<chunks, bi, all_nodes, all_relationships, batch_log,
                   unique_nodes_set, extracted>>

\* the loop has ended after one batch that returned `nodes` and `rels`
AfterOneBatch(nodes, rels) ==
    /\ chunks = <<Chunk(1)>>
    /\ epc = "batches"
    /\ bi = BATCH_SIZE
    /\ all_nodes = nodes
    /\ all_relationships = rels
    /\ batch_log = <<[i |-> 0, batch_chunks |-> chunks, ok |-> TRUE,
                      nodes |-> nodes, relationships |-> rels]>>
    /\ unique_nodes_set = {}
    /\ rerun_set = {}
    /\ extracted = NoResult

(***************************************************************************)
(* Ingestion: process_document_task (tasks.py), DocumentProcessor.process, *)
(* _create_chunks and _ingest_into_neo4j (processing_service.py)           *)
(*                                                                         *)
(* A document is named by its file name.  The text splitters are external: *)
(* what they make of a text is given by `kids`, the number of child chunks *)
(* of each parent chunk (kids = <<>> for an empty text).  Parent chunk i   *)
(* of file f has the text <<f, i>> and its k-th child the text <<f, i, k>>. *)
(***************************************************************************)
FileNames == {"a.pdf", "b.pdf"}

\* the worker processes consuming the task queue
Workers == {"w1", "w2"}

Shapes == SeqsUpTo(1..MaxKids, MaxParents)

RECURSIVE Flatten(_)
\* child_docs.extend(...) over the parents in order
Flatten(lists) ==
    IF lists = <<>> THEN <<>> ELSE Head(lists) \o Flatten(Tail(lists))

\* _id = f"parent_{i}"
parent_id_first(i) == <<"parent_", 0>>
parent_id(i) == <<"parent_", i>>

\* for i, doc in enumerate(parent_docs): every child of doc gets
\* parent_id and source, then doc gets its id
create_chunks(file_name, kids) ==
    [parents |->
        [p \in 1..Len(kids) |->
            [page_content |-> <<file_name, p - 1>>,
             metadata |-> [source |-> file_name, id |-> parent_id(p - 1)]]],
     children |->
        Flatten([p \in 1..Len(kids) |->
            [k \in 1..kids[p] |->
                [page_content |-> <<file_name, p - 1, k>>,
                 metadata |-> [source |-> file_name,
                               parent_id |-> parent_id(p - 1)]]]])]

NotParsed == [pages |-> FALSE, kids |-> <<>>]
NoTaskResult == [status |-> "NONE", filename |-> "",
                 total_parent_chunks |-> 0, total_child_chunks |-> 0,
                 total_graph_nodes |-> 0, total_graph_relationships |-> 0]

AbsentJob ==
    [status |-> "ABSENT", pc |-> "absent", file_exists |-> FALSE,
     parsed |-> NotParsed, parent_chunks |-> <<>>, child_chunks |-> <<>>,
     graph_documents |-> <<>>, ci |-> 0, process_outcome |-> "none",
     result |-> NoTaskResult,
     statuses |-> <<>>,    \* the statuses the result backend has shown
     workers |-> {}]       \* the workers that have run the task

\* an uploaded document whose task was queued
QueuedJob(exists) ==
    [AbsentJob EXCEPT !.status = "PENDING", !.pc = "queued",
                      !.file_exists = exists, !.statuses = <<"PENDING">>]

EmptyStore == [parents |-> {}, children |-> {}, edges |-> {}, graphs |-> {}]

\* os.remove(file_path) on an existing file
os_remove_forgotten(exists) == exists
os_remove(exists) == FALSE

\* except Exception as e: if os.path.exists(file_path): os.remove(file_path);
\* raise  -- the task ends FAILURE
task_except(job) ==
    [job EXCEPT !.file_exists = IF @ THEN os_remove(@) ELSE @,
                !.status = "FAILURE",
                !.statuses = Append(@, "FAILURE"),
                !.pc = "end"]

\* DocumentProcessor.process: except Exception as e: print(...); raise
process_raises(job) == task_except([job EXCEPT !.process_outcome = "raised"])

Fails(f) ==
    /\ jobs' = [jobs EXCEPT ![f] = process_raises(@)]
    /\ UNCHANGED store

\* a worker receives the task message, which leaves the queue (the task is
\* acknowledged on receipt: task_acks_late is not set), and starts it:
\* PENDING -> STARTED (task_track_started=True)
start_task_untracked ==
    /\ UNCHANGED <<qvars, evars>>
    /\ \E f \in FileNames, w \in Workers :
          /\ jobs[f].pc = "queued"
          /\ jobs' = [jobs EXCEPT ![f].pc = "parse",
                                  ![f].workers = @ \cup {w}]
          /\ UNCHANGED store
start_task ==
    /\ UNCHANGED <<qvars, evars>>
    /\ \E f \in FileNames, w \in Workers :
          /\ jobs[f].pc = "queued"
          /\ jobs' = [jobs EXCEPT ![f].status = "STARTED",
                                  ![f].statuses = Append(@, "STARTED"),
                                  ![f].pc = "parse",
                                  ![f].workers = @ \cup {w}]
          /\ UNCHANGED store

\* parsed_json = self._parse_document()
parse_document ==
    /\ UNCHANGED <<qvars, evars>>
    /\ \E f \in FileNames :
          /\ jobs[f].pc = "parse"
          /\ \/ \E kids \in Shapes :
                   /\ jobs[f].file_exists
                   /\ jobs' = [jobs EXCEPT
                                 ![f].parsed = [pages |-> TRUE, kids |-> kids],
                                 ![f].pc = "chunk"]
                   /\ UNCHANGED store
             \/ \* the parser swallowed its error and returned []
                /\ jobs' = [jobs EXCEPT ![f].parsed = NotParsed,
                                        ![f].pc = "chunk"]
                /\ UNCHANGED store
             \/ Fails(f)

\* parent_chunks, child_chunks = self._create_chunks(parsed_json)
create_chunks_step ==
    /\ UNCHANGED <<qvars, evars>>
    /\ \E f \in FileNames :
          /\ jobs[f].pc = "chunk"
          /\ IF ~jobs[f].parsed.pages
             THEN Fails(f)    \* parsed_json[0]: IndexError
             ELSE LET made == create_chunks(f, jobs[f].parsed.kids) IN
                  /\ jobs' = [jobs EXCEPT ![f].parent_chunks = made.parents,
                                          ![f].child_chunks = made.children,
                                          ![f].pc = "extract"]
                  /\ UNCHANGED store

\* the lists _extract_graph_entities has accumulated for non-empty chunks:
\* nothing (every batch failed) or what a batch answering GraphDataFull gave
ExtractedLists ==
    {[nodes |-> <<>>, relationships |-> <<>>],
     [nodes |-> GetList(GraphDataFull, "nodes"),
      relationships |-> GetList(GraphDataFull, "relationships")]}

\* graph_documents = self._extract_graph_entities(child_chunks)
extract_step ==
    /\ UNCHANGED <<qvars, evars>>
    /\ \E f \in FileNames :
          /\ jobs[f].pc = "extract"
          /\ IF jobs[f].child_chunks = <<>>
             THEN Fails(f)    \* chunks[0]: IndexError
             ELSE \E g \in ExtractedLists :
                  /\ jobs' = [jobs EXCEPT
                        ![f].graph_documents =
                            <<GraphDocument(
                                 node_list(unique_nodes(g.nodes, {})),
                                 build_relationships(g.relationships),
                                 jobs[f].child_chunks[1])>>,
                        ![f].pc = "parents"]
                  /\ UNCHANGED store

\* Neo4jVector.from_documents(documents=parent_chunks, ...,
\* node_label="ParentChunk"): one new node per parent chunk, carrying the
\* chunk's text and its metadata (source, id) as properties; nid is the
\* store's own identity of the node
ParentNodes(f, parent_chunks) ==
    {[nid |-> <<f, p>>,
      id |-> parent_chunks[p].metadata.id,
      source |-> parent_chunks[p].metadata.source,
      text |-> parent_chunks[p].page_content] : p \in 1..Len(parent_chunks)}

ingest_parents ==
    /\ UNCHANGED <<qvars, evars>>
    /\ \E f \in FileNames :
          /\ jobs[f].pc = "parents"
          /\ \/ /\ store' = [store EXCEPT !.parents =
                                @ \cup ParentNodes(f, jobs[f].parent_chunks)]
                /\ jobs' = [jobs EXCEPT ![f].pc = "children", ![f].ci = 0]
             \/ Fails(f)

\* MATCH (pc:ParentChunk {id: $parent_id})
match_parent(parents, f, chunk) ==
    {pc \in parents : pc.id = chunk.metadata.parent_id}

\* MERGE (c:ChildChunk {id: apoc.create.uuid(), text: $text})
\* MERGE (c)-[:CHILD_OF]->(pc)       -- once per matched pc
child_query(st, f, k, chunk) ==
    LET matched == match_parent(st.parents, f, chunk)
        created == {[nid |-> <<f, k, pc.nid>>, text |-> chunk.page_content,
                     parent |-> pc.nid] : pc \in matched}
    IN  [st EXCEPT !.children = @ \cup
                       {[nid |-> c.nid, text |-> c.text] : c \in created},
                   !.edges = @ \cup
                       {[from |-> c.nid, to |-> c.parent] : c \in created}]

\* for chunk in child_chunks: graph.query(...)
ingest_child ==
    /\ UNCHANGED <<qvars, evars>>
    /\ \E f \in FileNames :
          /\ jobs[f].pc = "children"
          /\ jobs[f].ci < Len(jobs[f].child_chunks)
          /\ \/ /\ store' = child_query(store, f, jobs[f].ci + 1,
                                        jobs[f].child_chunks[jobs[f].ci + 1])
                /\ jobs' = [jobs EXCEPT ![f].ci = @ + 1]
             \/ Fails(f)

\* graph.add_graph_documents(graph_documents)
ingest_graph_early ==
    /\ UNCHANGED <<qvars, evars>>
    /\ \E f \in FileNames :
          /\ jobs[f].pc = "children"
          /\ jobs[f].ci <= Len(jobs[f].child_chunks)
          /\ \/ /\ store' = [store EXCEPT !.graphs = @ \cup
                                {[file |-> f,
                                  nodes |-> jobs[f].graph_documents[1].nodes,
                                  relationships |->
                                    jobs[f].graph_documents[1].relationships]}]
                /\ jobs' = [jobs EXCEPT ![f].pc = "return"]
             \/ Fails(f)
ingest_graph ==
    /\ UNCHANGED <<qvars, evars>>
    /\ \E f \in FileNames :
          /\ jobs[f].pc = "children"
          /\ jobs[f].ci = Len(jobs[f].child_chunks)
          /\ \/ /\ store' = [store EXCEPT !.graphs = @ \cup
                                {[file |-> f,
                                  nodes |-> jobs[f].graph_documents[1].nodes,
                                  relationships |->
                                    jobs[f].graph_documents[1].relationships]}]
                /\ jobs' = [jobs EXCEPT ![f].pc = "return"]
             \/ Fails(f)

\* the dict DocumentProcessor.process returns
process_result(job, f) ==
    [status |-> "SUCCESS",
     filename |-> f,
     total_parent_chunks |-> Len(job.parent_chunks),
     total_child_chunks |-> Len(job.child_chunks),
     total_graph_nodes |-> Cardinality(job.graph_documents[1].nodes),
     total_graph_relationships |-> Len(job.graph_documents[1].relationships)]

\* process returns; os.remove(file_path);
\* return {"status": "SUCCESS", "result": result}
task_return ==
    /\ UNCHANGED <<qvars, evars>>
    /\ \E f \in FileNames :
          /\ jobs[f].pc = "return"
          /\ jobs' = [jobs EXCEPT ![f] =
                LET returned == [@ EXCEPT !.process_outcome = "returned"] IN
                IF ~returned.file_exists
                THEN task_except(returned)    \* os.remove: FileNotFoundError
                ELSE [returned EXCEPT !.file_exists = os_remove(@),
                                      !.status = "SUCCESS",
                                      !.statuses = Append(@, "SUCCESS"),
                                      !.pc = "end",
                                      !.result = process_result(returned, f)]]
          /\ UNCHANGED store

\* the tasks queued at the start, over an empty store
IngestStart(queued) ==
    /\ jobs = queued
    /\ store = EmptyStore

IngestNext ==
    \/ start_task
    \/ parse_document
    \/ create_chunks_step
    \/ extract_step
    \/ ingest_parents
    \/ ingest_child
    \/ ingest_graph
    \/ task_return

(***************************************************************************)
(* Specifications                                                          *)
(***************************************************************************)
\* a request arrives
InitQuery ==
    /\ \E req \in Requests : QueryStart(req, "security")
    /\ ExtractStart(<<>>, "idle")
    /\ IngestStart([f \in FileNames |-> AbsentJob])
SpecQuery == InitQuery /\ [][QueryNext]_vars

\* _extract_graph_entities is called with 0..MaxChunks chunks
InitExtract ==
    /\ QueryStart(NoRequest, "idle")
    /\ \E n \in 0..MaxChunks :
          ExtractStart([k \in 1..n |-> Chunk(k)], "batches")
    /\ IngestStart([f \in FileNames |-> AbsentJob])
ExtractNext == extract_batch \/ postprocess
SpecExtract == InitExtract /\ [][ExtractNext]_vars

\* the batch loop has ended with any list of node items
InitNodeDedup ==
    /\ QueryStart(NoRequest, "idle")
    /\ \E nodes \in SeqsUpTo(NodeItems, MaxNodes) : AfterOneBatch(nodes, <<>>)
    /\ IngestStart([f \in FileNames |-> AbsentJob])
NodeDedupNext == postprocess \/ dedup_again
SpecNodeDedup == InitNodeDedup /\ [][NodeDedupNext]_vars

\* the batch loop has ended with any list of relationship items
InitRelFilter ==
    /\ QueryStart(NoRequest, "idle")
    /\ \E rels \in SeqsUpTo(RelItems, MaxRels) : AfterOneBatch(<<>>, rels)
    /\ IngestStart([f \in FileNames |-> AbsentJob])
RelFilterNext == postprocess
SpecRelFilter == InitRelFilter /\ [][RelFilterNext]_vars

\* one uploaded document, its temporary file present or already gone
InitTask ==
    /\ QueryStart(NoRequest, "idle")
    /\ ExtractStart(<<>>, "idle")
    /\ \E exists \in BOOLEAN :
          IngestStart([f \in FileNames |->
                         IF f = "a.pdf" THEN QueuedJob(exists) ELSE AbsentJob])
SpecTask == InitTask /\ [][IngestNext]_vars

\* every document uploaded, each with its own temporary file
InitIngest ==
    /\ QueryStart(NoRequest, "idle")
    /\ ExtractStart(<<>>, "idle")
    /\ IngestStart([f \in FileNames |-> QueuedJob(TRUE)])
SpecIngest == InitIngest /\ [][IngestNext]_vars

(***************************************************************************)
(* Claims about the query path (checked under SpecQuery)                   *)
(***************************************************************************)
CallsOf(svc, i) ==
    {k \in 1..Len(calls) : calls[k].svc = svc /\ calls[k].qidx = i}

Authenticated ==
    qpc \in {"run_pipeline", "router", "branch", "synthesize"}
        \/ (qpc = "done" /\ response.status \in {200, 500})

\* C1: whatever the router LLM hands back (a known strategy, any other
\* strategy, or output that makes the router call fail), answer_query goes
\* on to one of its branches; an outcome that is no known strategy takes
\* the undetermined branch with the fixed context and no sources; the
\* router's failure never leaves answer_query as an exception and never
\* aborts the request.
C1_RouterFailureNeverAborts ==
    \A k \in 1..Len(calls) :
        (calls[k].svc = "router" /\ k = Len(calls)) =>
            /\ branch # "raised"
            /\ response.status # 500
            /\ qpc \in {"branch", "synthesize"}
            /\ (qpc = "synthesize" /\ calls[k].out[1] \notin KnownStrategies)
                  => /\ branch = "undetermined"
                     /\ context = UNDETERMINED_CONTEXT
                     /\ sources = <<>>

\* C8: a request whose bearer credential differs from the shared secret
\* ends with 401 and no router, retriever or synthesizer call was made for
\* it; a request whose bearer credential equals the shared secret is never
\* rejected for authentication.
HasBearerCredential ==
    request.authorization.present /\ Lower(request.authorization.scheme) = "bearer"

C8_AuthBeforeWorkAndExact ==
    HasBearerCredential =>
        IF request.authorization.credentials # API_KEY
        THEN /\ calls = <<>>
             /\ qpc = "done" => response.status = 401
        ELSE response.status \notin {401, 403}

\* C9 (as stated): with every question answered the response holds exactly
\* n answers, the i-th being the synthesizer's output for the i-th question
\* together with that question's source metadata; if any call fails the
\* request fails as a whole and returns no answers.
AllAnswered == Len(answer_data) = Len(request.questions)
SomeCallFailed == \E k \in 1..Len(calls) : ~calls[k].ok

SynthOutput(i) == calls[CHOOSE k \in CallsOf("synthesizer", i) : calls[k].ok].out[1]

AnswersInOrder ==
    /\ response.status = 200
    /\ Len(response.answers) = Len(request.questions)
    /\ \A i \in 1..Len(request.questions) :
          response.answers[i] = SynthOutput(i)

WholeRequestFails ==
    /\ response.status = 500
    /\ "answers" \notin DOMAIN response

C9_AnswersWithSources ==
    (qpc = "done" /\ Authenticated) =>
        /\ AllAnswered =>
              /\ AnswersInOrder
              /\ "sources" \in DOMAIN response
              /\ \A i \in 1..Len(request.questions) :
                    response.sources[i] = answer_data[i].sources
        /\ SomeCallFailed => WholeRequestFails

\* C9 (amended): with every question answered the response holds exactly n
\* answers, the i-th being the synthesizer's output for the i-th question,
\* and nothing else: the sources answer_query returned are not part of the
\* response; if any call fails the request fails as a whole with status 500
\* and returns no answers.
C9_AnswersOnly ==
    (qpc = "done" /\ Authenticated) =>
        /\ AllAnswered =>
              /\ AnswersInOrder
              /\ DOMAIN response = {"status", "answers"}
        /\ SomeCallFailed => WholeRequestFails
        /\ AllAnswered \/ SomeCallFailed

C9_Witness ==
    /\ qpc = "done"
    /\ response.status = 200
    /\ Len(response.answers) = 2
    /\ response.answers[1] # response.answers[2]
    /\ answer_data[1].sources # <<>>

\* C10: when the route decision is graph_qa the retriever is not called for
\* that question, the synthesizer is given the fixed placeholder context
\* and the original question, and the sources returned are empty.
RoutedAs(i, strategy) ==
    \E k \in CallsOf("router", i) : calls[k].ok /\ calls[k].out[1] = strategy

C10_GraphQaStub ==
    \A i \in 1..Len(request.questions) :
        RoutedAs(i, "graph_qa") =>
            /\ CallsOf("retriever", i) = {}
            /\ \A k \in CallsOf("synthesizer", i) :
                  /\ calls[k].context = GRAPH_QA_CONTEXT
                  /\ calls[k].query = request.questions[i]
            /\ i <= Len(answer_data) => answer_data[i].sources = <<>>
            /\ (i = qidx /\ qpc = "synthesize") =>
                  context = GRAPH_QA_CONTEXT /\ sources = <<>>

C10_Witness ==
    \E i \in 1..Len(answer_data) :
        /\ RoutedAs(i, "graph_qa")
        /\ CallsOf("synthesizer", i) # {}

(***************************************************************************)
(* Claims about _extract_graph_entities                                    *)
(***************************************************************************)
ExtractReturned == epc \in {"done", "rerun"} /\ ~extracted.raised

Present(v) == v # MISSING /\ v # ""

\* the relationship items the claim keeps: an object whose source and
\* target are objects and whose source id, target id and type are present
KeptRel(rel) ==
    /\ rel.kind = "dict"
    /\ rel.source.kind = "dict"
    /\ rel.target.kind = "dict"
    /\ Present(rel.source.id)
    /\ Present(rel.target.id)
    /\ Present(rel.type)

TypeOrUnknown(t) == IF Present(t) THEN t ELSE "Unknown"

ExpectedRel(rel) ==
    [source |-> [id |-> rel.source.id, type |-> TypeOrUnknown(rel.source.type)],
     target |-> [id |-> rel.target.id, type |-> TypeOrUnknown(rel.target.type)],
     type |-> rel.type]

ExpectedRels(rels) ==
    LET kept == SelectSeq(rels, KeptRel) IN
    [k \in 1..Len(kept) |-> ExpectedRel(kept[k])]

\* C2: the output relationships are, in order, one relationship for each
\* extracted item that is an object with object source and target and
\* non-empty source id, target id and type (carrying those, a missing
\* endpoint type replaced by "Unknown"), and nothing for any other item; no
\* output relationship has an empty source id, target id or type.
C2_RelationshipsValidated ==
    ExtractReturned =>
        LET out == extracted.docs[1].relationships IN
        /\ out = ExpectedRels(all_relationships)
        /\ \A k \in 1..Len(out) :
              /\ Present(out[k].source.id)
              /\ Present(out[k].target.id)
              /\ Present(out[k].type)

C2_Witness ==
    /\ ExtractReturned
    /\ Len(all_relationships) = 2
    /\ ~KeptRel(all_relationships[1])
    /\ all_relationships[1].kind = "dict"
    /\ all_relationships[1].type = ""
    /\ KeptRel(all_relationships[2])
    /\ Len(extracted.docs[1].relationships) = 1
    /\ extracted.docs[1].relationships[1].source.type = "Unknown"

\* the (id, type) pairs the claim expects of a node list
ExpectedPairs(items) ==
    {<<items[k].id, TypeOrUnknown(items[k].type)>> :
        k \in {j \in 1..Len(items) :
                 items[j].kind = "dict" /\ Present(items[j].id)}}

\* C3: the node-dedup step yields the set of distinct (id, type) pairs of
\* the items with a non-empty id, a missing or empty type replaced by
\* "Unknown"; the same id with different types stays distinct; run on its
\* own output the step yields the same set again.
C3_NodeDedup ==
    ExtractReturned =>
        /\ unique_nodes_set = ExpectedPairs(all_nodes)
        /\ extracted.docs[1].nodes =
              {[id |-> pair[1], type |-> pair[2]] :
                   pair \in ExpectedPairs(all_nodes)}
        /\ \A j, k \in 1..Len(all_nodes) :
              LET a == all_nodes[j]
                  b == all_nodes[k]
              IN  (/\ a.kind = "dict" /\ b.kind = "dict"
                   /\ Present(a.id) /\ a.id = b.id
                   /\ TypeOrUnknown(a.type) # TypeOrUnknown(b.type))
                  => Cardinality({n \in extracted.docs[1].nodes :
                                     n.id = a.id}) >= 2
        /\ epc = "rerun" => rerun_set = unique_nodes_set

C3_Witness ==
    /\ epc = "rerun"
    /\ Len(all_nodes) = 3
    /\ <<"A", "Person">> \in unique_nodes_set
    /\ <<"A", "Unknown">> \in unique_nodes_set
    /\ Cardinality(unique_nodes_set) = 2
    /\ rerun_set = unique_nodes_set

RECURSIVE Concat(_, _)
\* the lists the successful invocations returned, one after the other
Concat(log, field) ==
    IF log = <<>> THEN <<>>
    ELSE (IF Head(log).ok THEN Head(log)[field] ELSE <<>>)
             \o Concat(Tail(log), field)

Ceil(n, d) == (n + d - 1) \div d

ChildNodesOf(f, k) ==
    {c \in store.children : c.nid[1] = f /\ c.nid[2] = k}

ParentsOf(c) == {e.to : e \in {d \in store.edges : d.from = c.nid}}

\* C5: under any interleaving of the ingestion jobs of different
\* documents, every child chunk written so far has exactly one ChildChunk
\* node, that node has a CHILD_OF edge to exactly one ParentChunk, that
\* parent is of the child's own document, and no job attaches nodes to the
\* parent chunks another document's job wrote.
C5_ChildLinkedToOwnParentOnly ==
    /\ \A f \in FileNames : \A k \in 1..jobs[f].ci :
          /\ Cardinality(ChildNodesOf(f, k)) = 1
          /\ \A c \in ChildNodesOf(f, k) :
                /\ Cardinality(ParentsOf(c)) = 1
                /\ \A to \in ParentsOf(c) :
                      \E pc \in store.parents :
                          /\ pc.nid = to
                          /\ pc.source = jobs[f].child_chunks[k].metadata.source
    /\ \A e \in store.edges : e.from[1] = e.to[1]

\* C6: in the output of _create_chunks every child's parent_id is the id
\* of exactly one parent of the returned list, the one whose text it was
\* split from; the parent ids of a document are pairwise distinct; a child
\* has the source name of its parent.
C6_ChildRefersToItsParent ==
    \A f \in FileNames :
        LET parents == jobs[f].parent_chunks
            children == jobs[f].child_chunks
        IN  /\ \A c \in 1..Len(children) :
                  LET named == {p \in 1..Len(parents) :
                                  parents[p].metadata.id =
                                      children[c].metadata.parent_id}
                  IN  /\ Cardinality(named) = 1
                      /\ \A p \in named :
                            /\ SubSeq(children[c].page_content, 1, 2) =
                                   parents[p].page_content
                            /\ children[c].metadata.source =
                                   parents[p].metadata.source
            /\ \A p, q \in 1..Len(parents) :
                  p # q => parents[p].metadata.id # parents[q].metadata.id

C6_Witness ==
    /\ Len(jobs["a.pdf"].parent_chunks) = 2
    /\ Len(jobs["a.pdf"].child_chunks) = 3
    /\ jobs["a.pdf"].child_chunks[3].metadata.parent_id = <<"parent_", 1>>

\* C7: when the task ends the temporary file does not exist; when process
\* raised the task ended FAILURE; when process returned the task ended
\* SUCCESS carrying the processor's result.
C7_FileRemovedOutcomeReported ==
    \A f \in FileNames :
        LET job == jobs[f] IN
        /\ job.pc = "end" =>
              /\ ~job.file_exists
              /\ job.process_outcome \in {"raised", "returned"}
        /\ job.process_outcome = "raised" =>
              /\ job.pc = "end"
              /\ job.status = "FAILURE"
              /\ job.result.status = "NONE"
        /\ job.process_outcome = "returned" =>
              /\ job.pc = "end"
              /\ job.status = "SUCCESS"
              /\ job.result.status = "SUCCESS"
              /\ job.result.filename = f
              /\ job.result.total_parent_chunks = Len(job.parent_chunks)
              /\ job.result.total_child_chunks = Len(job.child_chunks)
              /\ job.result.total_graph_nodes =
                    Cardinality(job.graph_documents[1].nodes)
              /\ job.result.total_graph_relationships =
                    Len(job.graph_documents[1].relationships)

C7_Witness ==
    /\ jobs["a.pdf"].pc = "end"
    /\ jobs["a.pdf"].status = "FAILURE"
    /\ store.children # {}
    /\ store.graphs = {}
    /\ ~jobs["a.pdf"].file_exists

\* C11: a job for a non-empty document whose parse, chunking, extraction
\* and ingestion all succeeded has shown the statuses pending, started,
\* success in that order and no other; no job's status ever goes back (the
\* statuses shown are a prefix of pending, started, then success or
\* failure); a job is run by at most one worker; the result of the
\* successful job reports the numbers of parent and child chunks made
\* for the document, both non-zero.
IsPrefix(s, t) == Len(s) <= Len(t) /\ \A k \in 1..Len(s) : s[k] = t[k]

C11_PendingStartedSuccess ==
    \A f \in FileNames :
        LET job == jobs[f] IN
        /\ Cardinality(job.workers) <= 1
        /\ \/ IsPrefix(job.statuses, <<"PENDING", "STARTED", "SUCCESS">>)
           \/ IsPrefix(job.statuses, <<"PENDING", "STARTED", "FAILURE">>)
        /\ job.statuses # <<>> =>
              job.status = job.statuses[Len(job.statuses)]
        /\ (job.process_outcome = "returned" /\ job.parent_chunks # <<>>) =>
              /\ job.statuses = <<"PENDING", "STARTED", "SUCCESS">>
              /\ Cardinality(job.workers) = 1
              /\ job.result.total_parent_chunks = Len(job.parent_chunks)
              /\ job.result.total_child_chunks = Len(job.child_chunks)
              /\ job.result.total_parent_chunks > 0
              /\ job.result.total_child_chunks > 0

C11_Witness ==
    /\ jobs["a.pdf"].statuses = <<"PENDING", "STARTED", "SUCCESS">>
    /\ jobs["a.pdf"].result.total_parent_chunks = 2
    /\ jobs["a.pdf"].result.total_child_chunks = 3
    /\ jobs["a.pdf"].workers = {"w2"}

\* C12: empty input is not an error: the chunks made for a document with
\* an empty text are no parent chunk and no child chunk, and
\* _extract_graph_entities, for every sequence of child chunks, the empty
\* one included, returns exactly one graph document without raising (for
\* the empty sequence one with no nodes and no relationships).
C12_EmptyInputNotAnError ==
    /\ \A f \in FileNames :
          create_chunks(f, <<>>) = [parents |-> <<>>, children |-> <<>>]
    /\ epc = "done" =>
          /\ ~extracted.raised
          /\ Len(extracted.docs) = 1
          /\ chunks = <<>> =>
                /\ extracted.docs[1].nodes = {}
                /\ extracted.docs[1].relationships = <<>>

\* the positions, in child_chunks, of the child chunks of file f that have
\* a ChildChunk node in the store
WrittenChildren(f) == {c.nid[2] : c \in {d \in store.children : d.nid[1] = f}}

ParentsWritten(f) ==
    /\ jobs[f].parent_chunks # <<>>
    /\ ParentNodes(f, jobs[f].parent_chunks) \subseteq store.parents

GraphWritten(f) == \E g \in store.graphs : g.file = f

\* what the store holds of each ingestion is a prefix of: all parent
\* chunks, the child chunks in sequence order, the graph document
PrefixOfWriteOrder ==
    \A f \in FileNames :
        /\ WrittenChildren(f) # {} => ParentsWritten(f)
        /\ \E n \in 0..Len(jobs[f].child_chunks) : WrittenChildren(f) = 1..n
        /\ WrittenChildren(f) = 1..jobs[f].ci
        /\ GraphWritten(f) =>
              /\ ParentsWritten(f)
              /\ WrittenChildren(f) = 1..Len(jobs[f].child_chunks)

\* no step, a failing one included, takes anything out of the store
NothingRolledBack ==
    /\ store.parents \subseteq store'.parents
    /\ store.children \subseteq store'.children
    /\ store.edges \subseteq store'.edges
    /\ store.graphs \subseteq store'.graphs

\* C13: _ingest_into_neo4j writes all parent chunks, then the child chunks
\* one by one in sequence order, then the graph document, and nothing is
\* rolled back: in every reachable state of the store, the states left by
\* a failure partway included, a child node of a document is present only
\* if all its parent chunks are, the child chunks written are the first
\* ones of the sequence, and the graph document is present only if every
\* child chunk was written; what was written stays.
C13_WritesFormPrefix == []PrefixOfWriteOrder /\ [][NothingRolledBack]_vars

\* a failure after the parents and the first of three child chunks
C13_Witness ==
    /\ jobs["a.pdf"].status = "FAILURE"
    /\ Len(jobs["a.pdf"].child_chunks) = 3
    /\ ParentsWritten("a.pdf")
    /\ WrittenChildren("a.pdf") = {1}
    /\ ~GraphWritten("a.pdf")

\* the one call of a service made for question i
TheCall(svc, i) == CHOOSE k \in CallsOf(svc, i) : TRUE

\* the context and the sources answer_query builds on the branch taken for
\* a strategy, from what the retriever returned
BranchContext(strategy, results) ==
    IF strategy \in {"vector_search", "hybrid_search"}
    THEN Join([d \in 1..Len(results) |-> results[d].page_content])
    ELSE IF strategy = "graph_qa" THEN GRAPH_QA_CONTEXT
    ELSE UNDETERMINED_CONTEXT

BranchSources(strategy, results) ==
    IF strategy \in {"vector_search", "hybrid_search"}
    THEN [d \in 1..Len(results) |-> results[d].metadata]
    ELSE <<>>

\* C14: for every question answer_query has completed, the router was
\* called exactly once; the retriever exactly once, after the router, when
\* the strategy is vector_search or hybrid_search, and not at all
\* otherwise; the synthesizer exactly once, after both, on every branch,
\* with the question and the context of that branch; the sources returned
\* are the metadata of the retrieved documents in retrieval order.
C14_RouterRetrieverSynthesizer ==
    \A i \in 1..Len(answer_data) :
        /\ Cardinality(CallsOf("router", i)) = 1
        /\ Cardinality(CallsOf("synthesizer", i)) = 1
        /\ LET r == TheCall("router", i)
               s == TheCall("synthesizer", i)
               strategy == calls[r].out[1]
               retrieves == strategy \in {"vector_search", "hybrid_search"}
           IN  /\ calls[r].ok
               /\ calls[s].ok
               /\ r < s
               /\ calls[s].query = request.questions[i]
               /\ answer_data[i].answer = calls[s].out[1]
               /\ IF retrieves
                  THEN /\ Cardinality(CallsOf("retriever", i)) = 1
                       /\ LET v == TheCall("retriever", i) IN
                          /\ calls[v].ok
                          /\ r < v
                          /\ v < s
                          /\ calls[v].query = request.questions[i]
                          /\ calls[s].context =
                                BranchContext(strategy, calls[v].out)
                          /\ answer_data[i].sources =
                                BranchSources(strategy, calls[v].out)
                  ELSE /\ CallsOf("retriever", i) = {}
                       /\ calls[s].context = BranchContext(strategy, <<>>)
                       /\ answer_data[i].sources = <<>>

\* a question routed to hybrid_search that retrieved two documents, after
\* a question that went down the undetermined branch
C14_Witness ==
    /\ Len(answer_data) = 2
    /\ RoutedAs(1, "keyword_search")
    /\ RoutedAs(2, "hybrid_search")
    /\ Len(answer_data[2].sources) = 2
    /\ answer_data[2].sources[1] # answer_data[2].sources[2]
    /\ qpc = "done"

\* the chunks the invocations were given, one batch after the other
RECURSIVE BatchesInOrder(_)
BatchesInOrder(log) ==
    IF log = <<>> THEN <<>>
    ELSE Head(log).batch_chunks \o BatchesInOrder(Tail(log))

\* the places (invocation, position in its batch) where a chunk was sent
PlacesOf(chunk) ==
    {pl \in (1..Len(batch_log)) \X (1..5) :
        /\ pl[2] <= Len(batch_log[pl[1]].batch_chunks)
        /\ batch_log[pl[1]].batch_chunks[pl[2]] = chunk}

\* C15: the n child chunks are cut into consecutive batches of exactly 5,
\* the last one holding the remaining 1 to 5; every chunk is in exactly one
\* batch and the order is kept; the extraction LLM is invoked exactly once
\* per batch, ceil(n/5) times in all, whether the invocation succeeds or
\* fails (a failed batch is not invoked again).
C15_BatchesOfFive ==
    /\ \A k \in 1..Len(batch_log) :
          /\ batch_log[k].i = 5 * (k - 1)
          /\ Len(batch_log[k].batch_chunks) \in 1..5
          /\ 5 * k <= Len(chunks) => Len(batch_log[k].batch_chunks) = 5
          /\ 5 * k > Len(chunks) =>
                Len(batch_log[k].batch_chunks) = Len(chunks) - 5 * (k - 1)
    /\ IsPrefix(BatchesInOrder(batch_log), chunks)
    /\ \A j \in 1..Len(chunks) : Cardinality(PlacesOf(chunks[j])) <= 1
    /\ epc = "done" =>
          /\ Len(batch_log) = (Len(chunks) + 4) \div 5
          /\ BatchesInOrder(batch_log) = chunks
          /\ \A j \in 1..Len(chunks) : Cardinality(PlacesOf(chunks[j])) = 1

\* eleven chunks: batches of 5, 5 and 1, the second one failed
C15_Witness ==
    /\ epc = "done"
    /\ Len(chunks) = 11
    /\ Len(batch_log) = 3
    /\ batch_log[1].ok
    /\ ~batch_log[2].ok
    /\ Len(batch_log[2].batch_chunks) = 5
    /\ Len(batch_log[3].batch_chunks) = 1

====
